---- MODULE Spec2Model ----
(***************************************************************************)
(* A model of hw_generator/hw.py: the homework allocation engine           *)
(* (assign_problems, slice_pop, make_group_tables), the roster parser      *)
(* (parse_students) and the per-group output loop of make_homework.        *)
(*                                                                         *)
(* Python lists are sequences, Python strings that the code takes apart    *)
(* (roster lines) are sequences of one-character strings, and a dict is    *)
(* the sequence of its items in insertion order.  random.shuffle is a      *)
(* nondeterministic choice among all permutations.                         *)
(***************************************************************************)
EXTENDS Integers, Sequences, FiniteSets, TLC

VARIABLES
    \* assign_problems called on its own
    problems, students_n, a_pc, a_result,
    \* make_group_tables
    groups, problem_groups, t_pc, total_students_n, allocs, combined,
    problems_assigned, group_problems, table_data, t_error,
    \* parse_students
    file_lines, lines, p_idx, p_groups, current_group, p_pc, p_error,
    \* the per-group loop of make_homework
    h_groups, make_pdf, h_idx, h_pc, h_status, h_events

assignVars == <<problems, students_n, a_pc, a_result>>
tableVars == <<groups, problem_groups, t_pc, total_students_n, allocs, combined,
               problems_assigned, group_problems, table_data, t_error>>
parseVars == <<file_lines, lines, p_idx, p_groups, current_group, p_pc, p_error>>
hwVars == <<h_groups, make_pdf, h_idx, h_pc, h_status, h_events>>
vars == <<assignVars, tableVars, parseVars, hwVars>>

-----------------------------------------------------------------------------
(* Bounds of the explored inputs *)

\* longest problem list handed to assign_problems on its own
MaxProblems == 3
\* largest students_n handed to assign_problems on its own
MaxCount == 7
\* most students in one group of a roster given to make_group_tables
MaxGroupSize == 2
\* most problem-sets given to make_group_tables
MaxProblemSets == 2
\* most lines of a roster file
MaxLines == 3

Labels == {"p1", "p2", "p3"}
TableProblemSets == {<<>>, <<"p1">>, <<"p1", "p2">>, <<"p2", "p2">>}
GroupNames == {"A", "B"}
StudentNames == {"X", "Y"}
HwGroupNames == {"A", "B", "C"}
Statuses == {200, 404, 500}

-----------------------------------------------------------------------------
(* Generic helpers *)

SeqsUpTo(S, n) == UNION {[1..k -> S] : k \in 0..n}

Min(a, b) == IF a <= b THEN a ELSE b

\* sequences of pairwise distinct elements of S (the key orders of a dict)
DistinctSeqs(S) ==
    {s \in SeqsUpTo(S, Cardinality(S)) :
        \A i, j \in 1..Len(s) : i # j => s[i] # s[j]}

RECURSIVE SumLens(_)
\* sum([len(x) for x in xs])
SumLens(xs) == IF xs = <<>> THEN 0 ELSE Len(Head(xs)) + SumLens(Tail(xs))

\* number of positions of s holding x
Count(s, x) == Cardinality({i \in 1..Len(s) : s[i] = x})

-----------------------------------------------------------------------------
(* assign_problems *)

\* math.ceil(a / b) for a >= 0, b > 0
Ceil(a, b) == IF a % b = 0 THEN a \div b ELSE (a \div b) + 1

\* l[:a] for a >= 0
Prefix(l, a) == SubSeq(l, 1, Min(a, Len(l)))

\* a shuffle that draws every position independently (with replacement)
ShufflesWithReplacement(p) ==
    {[i \in 1..Len(p) |-> p[f[i]]] : f \in [1..Len(p) -> 1..Len(p)]}

\* every value p can have after p = problems.copy(); shuffle(p)
Shuffles(p) == {[i \in 1..Len(p) |-> p[f[i]]] : f \in Permutations(1..Len(p))}

RECURSIVE Repeated(_, _)
Repeated(p, n) == IF n <= 0 THEN <<>> ELSE p \o Repeated(p, n - 1)

\* one shuffle of all n copies together instead of one shuffle per copy
MultipliedGlobalShuffle(p, n) == Shuffles(Repeated(p, n))

RECURSIVE Multiplied(_, _)
\* every value of multiplied_problems after n iterations of the loop
Multiplied(p, n) ==
    IF n <= 0 THEN {<<>>}
    ELSE {m \o s : m \in Multiplied(p, n - 1), s \in Shuffles(p)}

\* assign_problems without the final [:students_n]
AssignProblemsUntruncated(p, n) == Multiplied(p, Ceil(n, Len(p)))

\* every value assign_problems(p, n) can return, for len(p) > 0
AssignProblems(p, n) ==
    {Prefix(m, n) : m \in Multiplied(p, Ceil(n, Len(p)))}

AssignInit ==
    /\ problems \in SeqsUpTo(Labels, MaxProblems)
    /\ students_n \in 0..MaxCount
    /\ a_pc = "call"
    /\ a_result = <<>>

\* the call returns one of its possible values
AssignReturn ==
    /\ a_pc = "call"
    /\ Len(problems) > 0
    /\ \E r \in AssignProblems(problems, students_n) : a_result' = r
    /\ a_pc' = "returned"
    /\ UNCHANGED <<problems, students_n>>

\* students_n / len(problems) with an empty list
AssignZeroDivision ==
    /\ a_pc = "call"
    /\ Len(problems) = 0
    /\ a_pc' = "ZeroDivisionError"
    /\ UNCHANGED <<problems, students_n, a_result>>

AssignIdle ==
    /\ problems = <<>>
    /\ students_n = 0
    /\ a_pc = "idle"
    /\ a_result = <<>>

-----------------------------------------------------------------------------
(* slice_pop and make_group_tables *)

\* slice_pop(l, a) with b omitted, a >= 0: the returned l[None:a]
SlicePop(l, a) == Prefix(l, a)

\* slice_pop(l, a) with b omitted, a >= 0: l after del l[None:a]
SlicePopRest(l, a) == SubSeq(l, Min(a, Len(l)) + 1, Len(l))

RECURSIVE MinLen(_)
\* the length zip(*xs) stops at, for non-empty xs
MinLen(xs) ==
    IF Len(xs) = 1 THEN Len(Head(xs)) ELSE Min(Len(Head(xs)), MinLen(Tail(xs)))

\* list(map(list, zip(*xs))); zip() of no arguments is empty
Zip(xs) ==
    IF xs = <<>> THEN <<>>
    ELSE [i \in 1..MinLen(xs) |-> [j \in 1..Len(xs) |-> xs[j][i]]]

\* d[key] for a dict d held as the sequence of its items
Lookup(d, key) == (CHOOSE i \in 1..Len(d) : d[i].name = key)

\* a row numbered with the 0-based index i instead of i + 1
RowZeroBased(k, student, tuple) == <<k - 1, student>> \o tuple

\* list((i + 1, student, *tuple)) for the 0-based index i = k - 1
Row(k, student, tuple) == <<k, student>> \o tuple

\* the rows of one group, when group_problems[group] is long enough
Rows(students, tuples) ==
    [k \in 1..Len(students) |-> Row(k, students[k], tuples[k])]

Rosters ==
    UNION {{[i \in 1..Len(ks) |-> [name |-> ks[i], students |-> sl[i]]] :
              sl \in [1..Len(ks) -> SeqsUpTo(StudentNames, MaxGroupSize)]} :
           ks \in DistinctSeqs(GroupNames)}

TablesInit ==
    /\ groups \in Rosters
    /\ problem_groups \in SeqsUpTo(TableProblemSets, MaxProblemSets)
    /\ t_pc = "start"
    /\ total_students_n = 0
    /\ allocs = <<>>
    /\ combined = <<>>
    /\ problems_assigned = <<>>
    /\ group_problems = <<>>
    /\ table_data = <<>>
    /\ t_error = "none"

\* line 138
TotalStudents ==
    /\ t_pc = "start"
    /\ total_students_n' = SumLens([i \in 1..Len(groups) |-> groups[i].students])
    /\ t_pc' = "assign"
    /\ UNCHANGED <<groups, problem_groups, allocs, combined, problems_assigned,
                   group_problems, table_data, t_error>>

\* line 140: one more element of the list comprehension
AssignNext ==
    /\ t_pc = "assign"
    /\ Len(allocs) < Len(problem_groups)
    /\ LET p == problem_groups[Len(allocs) + 1] IN
        /\ Len(p) > 0
        /\ \E r \in AssignProblems(p, total_students_n) :
              allocs' = Append(allocs, r)
    /\ UNCHANGED <<groups, problem_groups, t_pc, total_students_n, combined,
                   problems_assigned, group_problems, table_data, t_error>>

\* line 140 -> line 112 with an empty problem-set
AssignNextZeroDivision ==
    /\ t_pc = "assign"
    /\ Len(allocs) < Len(problem_groups)
    /\ Len(problem_groups[Len(allocs) + 1]) = 0
    /\ t_pc' = "raised"
    /\ t_error' = "ZeroDivisionError"
    /\ UNCHANGED <<groups, problem_groups, total_students_n, allocs, combined,
                   problems_assigned, group_problems, table_data>>

\* lines 139-141: transpose the allocations
Combine ==
    /\ t_pc = "assign"
    /\ Len(allocs) = Len(problem_groups)
    /\ problems_assigned' = Zip(allocs)
    /\ combined' = Zip(allocs)
    /\ t_pc' = "partition"
    /\ UNCHANGED <<groups, problem_groups, total_students_n, allocs,
                   group_problems, table_data, t_error>>

\* lines 142-145: one more item of the dict comprehension
Partition ==
    /\ t_pc = "partition"
    /\ Len(group_problems) < Len(groups)
    /\ LET g == groups[Len(group_problems) + 1] IN
        /\ group_problems' =
              Append(group_problems,
                     [name |-> g.name,
                      problems |-> SlicePop(problems_assigned, Len(g.students))])
        /\ problems_assigned' = SlicePopRest(problems_assigned, Len(g.students))
    /\ UNCHANGED <<groups, problem_groups, t_pc, total_students_n, allocs,
                   combined, table_data, t_error>>

\* lines 146-152: one more item of the dict comprehension
Assemble ==
    /\ t_pc = "partition"
    /\ Len(group_problems) = Len(groups)
    /\ Len(table_data) < Len(groups)
    /\ LET g == groups[Len(table_data) + 1]
           tuples == group_problems[Lookup(group_problems, g.name)].problems
       IN
        /\ Len(tuples) >= Len(g.students)
        /\ table_data' =
              Append(table_data, [name |-> g.name, rows |-> Rows(g.students, tuples)])
    /\ UNCHANGED <<groups, problem_groups, t_pc, total_students_n, allocs,
                   combined, problems_assigned, group_problems, t_error>>

\* line 148: group_problems[group][i] past the end of the group's slice
AssembleIndexError ==
    /\ t_pc = "partition"
    /\ Len(group_problems) = Len(groups)
    /\ Len(table_data) < Len(groups)
    /\ LET g == groups[Len(table_data) + 1]
           tuples == group_problems[Lookup(group_problems, g.name)].problems
       IN Len(tuples) < Len(g.students)
    /\ t_pc' = "raised"
    /\ t_error' = "IndexError"
    /\ UNCHANGED <<groups, problem_groups, total_students_n, allocs, combined,
                   problems_assigned, group_problems, table_data>>

\* line 153
TablesReturn ==
    /\ t_pc = "partition"
    /\ Len(group_problems) = Len(groups)
    /\ Len(table_data) = Len(groups)
    /\ t_pc' = "returned"
    /\ UNCHANGED <<groups, problem_groups, total_students_n, allocs, combined,
                   problems_assigned, group_problems, table_data, t_error>>

TablesIdle ==
    /\ groups = <<>>
    /\ problem_groups = <<>>
    /\ t_pc = "idle"
    /\ total_students_n = 0
    /\ allocs = <<>>
    /\ combined = <<>>
    /\ problems_assigned = <<>>
    /\ group_problems = <<>>
    /\ table_data = <<>>
    /\ t_error = "none"

-----------------------------------------------------------------------------
(* parse_students, wrapped by show_docstring_at_exception *)

\* the roster lines tried: a blank line, two headers, "Ko I. P.", "M J", "S"
FileLineChoices ==
    { <<>>,
      <<"[", "A", "]">>,
      <<"[", "B", "]">>,
      <<"K", "o", " ", "I", ".", " ", "P", ".">>,
      <<"M", " ", "J">>,
      <<"S">> }

\* line.startswith("[") and line.endswith("]")
IsHeader(line) == Len(line) > 0 /\ line[1] = "[" /\ line[Len(line)] = "]"

\* line[1:-1]
GroupOf(line) == SubSeq(line, 2, Len(line) - 1)

\* re.sub("\.", "", line)
DropDots(line) == SelectSeq(line, LAMBDA c : c # ".")

RECURSIVE Split(_)
\* s.split(" ")
Split(s) ==
    IF \A i \in 1..Len(s) : s[i] # " " THEN <<s>>
    ELSE LET i == CHOOSE k \in 1..Len(s) :
                    s[k] = " " /\ \A m \in 1..(k - 1) : s[m] # " "
         IN <<SubSeq(s, 1, i - 1)>> \o Split(SubSeq(s, i + 1, Len(s)))

\* lines 77-81 succeed: three words, or two words and None
Unpacks(line) == Len(Split(DropDots(line))) \in {2, 3}

\* lines 77-86: the display name of a student line that unpacks
Student(line) ==
    LET splitted == Split(DropDots(line))
        last_name == splitted[1]
        first_name == splitted[2]
    IN IF Len(splitted) = 3 /\ Len(splitted[3]) > 0
       THEN last_name \o <<" ">> \o Prefix(first_name, 1) \o <<".", " ">>
            \o Prefix(splitted[3], 1) \o <<".">>
       ELSE last_name \o <<" ">> \o Prefix(first_name, 1) \o <<".">>

\* group in groups
HasGroup(d, group) == \E i \in 1..Len(d) : d[i].name = group

\* the exception the wrapper raises in place of one with message msg
ShowDocstring(msg) == [type |-> "Exception", message |-> <<msg, "__doc__">>]

NoError == [type |-> "none", message |-> <<>>]

ParseInit ==
    /\ file_lines \in SeqsUpTo(FileLineChoices, MaxLines)
    /\ lines = <<>>
    /\ p_idx = 0
    /\ p_groups = <<>>
    /\ current_group = <<>>
    /\ p_pc = "open"
    /\ p_error = NoError

\* lines 62-65
ReadLines ==
    /\ p_pc = "open"
    /\ lines' = SelectSeq(file_lines, LAMBDA l : Len(l) # 0)
    /\ p_idx' = 1
    /\ p_pc' = "loop"
    /\ UNCHANGED <<file_lines, p_groups, current_group, p_error>>

\* lines 67-71
ParseHeader ==
    /\ p_pc = "loop"
    /\ p_idx <= Len(lines)
    /\ IsHeader(lines[p_idx])
    /\ ~HasGroup(p_groups, GroupOf(lines[p_idx]))
    /\ p_groups' = Append(p_groups,
                          [name |-> GroupOf(lines[p_idx]), students |-> <<>>])
    /\ current_group' = <<GroupOf(lines[p_idx])>>
    /\ p_idx' = p_idx + 1
    /\ UNCHANGED <<file_lines, lines, p_pc, p_error>>

\* lines 72-73
ParseHeaderRepeats ==
    /\ p_pc = "loop"
    /\ p_idx <= Len(lines)
    /\ IsHeader(lines[p_idx])
    /\ HasGroup(p_groups, GroupOf(lines[p_idx]))
    /\ p_pc' = "raised"
    /\ p_error' = ShowDocstring("group repeats")
    /\ UNCHANGED <<file_lines, lines, p_idx, p_groups, current_group>>

\* lines 75-76
ParseStudentNoGroup ==
    /\ p_pc = "loop"
    /\ p_idx <= Len(lines)
    /\ ~IsHeader(lines[p_idx])
    /\ current_group = <<>>
    /\ p_pc' = "raised"
    /\ p_error' = ShowDocstring("fix file")
    /\ UNCHANGED <<file_lines, lines, p_idx, p_groups, current_group>>

\* lines 77-81: the tuple assignment fails
ParseStudentUnpack ==
    /\ p_pc = "loop"
    /\ p_idx <= Len(lines)
    /\ ~IsHeader(lines[p_idx])
    /\ current_group # <<>>
    /\ ~Unpacks(lines[p_idx])
    /\ p_pc' = "raised"
    /\ p_error' = ShowDocstring("values to unpack")
    /\ UNCHANGED <<file_lines, lines, p_idx, p_groups, current_group>>

\* lines 77-87
ParseStudent ==
    /\ p_pc = "loop"
    /\ p_idx <= Len(lines)
    /\ ~IsHeader(lines[p_idx])
    /\ current_group # <<>>
    /\ Unpacks(lines[p_idx])
    /\ LET k == Lookup(p_groups, current_group[1]) IN
          p_groups' = [p_groups EXCEPT
                         ![k].students = Append(@, Student(lines[p_idx]))]
    /\ p_idx' = p_idx + 1
    /\ UNCHANGED <<file_lines, lines, current_group, p_pc, p_error>>

\* line 88
ParseReturn ==
    /\ p_pc = "loop"
    /\ p_idx > Len(lines)
    /\ p_pc' = "returned"
    /\ UNCHANGED <<file_lines, lines, p_idx, p_groups, current_group, p_error>>

ParseIdle ==
    /\ file_lines = <<>>
    /\ lines = <<>>
    /\ p_idx = 0
    /\ p_groups = <<>>
    /\ current_group = <<>>
    /\ p_pc = "idle"
    /\ p_error = NoError

-----------------------------------------------------------------------------
(* make_homework: the loop over group_tables.items() *)

HomeworkInit ==
    /\ h_groups \in DistinctSeqs(HwGroupNames)
    /\ make_pdf \in BOOLEAN
    /\ h_idx = 1
    /\ h_pc = "tex"
    /\ h_status = 0
    /\ h_events = <<>>

\* lines 193-196 with make_pdf false: on to the next group
WriteTex ==
    /\ h_pc = "tex"
    /\ h_idx <= Len(h_groups)
    /\ ~make_pdf
    /\ h_events' = Append(h_events, <<"tex", h_groups[h_idx]>>)
    /\ h_idx' = h_idx + 1
    /\ UNCHANGED <<h_groups, make_pdf, h_pc, h_status>>

\* lines 193-196 with make_pdf true
WriteTexThenPdf ==
    /\ h_pc = "tex"
    /\ h_idx <= Len(h_groups)
    /\ make_pdf
    /\ h_events' = Append(h_events, <<"tex", h_groups[h_idx]>>)
    /\ h_pc' = "request"
    /\ UNCHANGED <<h_groups, make_pdf, h_idx, h_status>>

\* lines 197-198: the remote compile request and its response
Request ==
    /\ h_pc = "request"
    /\ \E s \in Statuses : h_status' = s
    /\ h_events' = Append(h_events, <<"request", h_groups[h_idx]>>)
    /\ h_pc' = "response"
    /\ UNCHANGED <<h_groups, make_pdf, h_idx>>

\* lines 199-202
SavePdfAndSleep ==
    /\ h_pc = "response"
    /\ h_status = 200
    /\ h_events' = h_events \o <<<<"pdf", h_groups[h_idx]>>, <<"sleep", h_groups[h_idx]>>>>
    /\ h_idx' = h_idx + 1
    /\ h_pc' = "tex"
    /\ UNCHANGED <<h_groups, make_pdf, h_status>>

\* lines 203-204
ReportFailure ==
    /\ h_pc = "response"
    /\ h_status # 200
    /\ h_events' = Append(h_events, <<"print", h_groups[h_idx]>>)
    /\ h_idx' = h_idx + 1
    /\ h_pc' = "tex"
    /\ UNCHANGED <<h_groups, make_pdf, h_status>>

\* the loop of line 192 is exhausted
HomeworkDone ==
    /\ h_pc = "tex"
    /\ h_idx > Len(h_groups)
    /\ h_pc' = "done"
    /\ UNCHANGED <<h_groups, make_pdf, h_idx, h_status, h_events>>

HomeworkIdle ==
    /\ h_groups = <<>>
    /\ make_pdf = FALSE
    /\ h_idx = 0
    /\ h_pc = "idle"
    /\ h_status = 0
    /\ h_events = <<>>

-----------------------------------------------------------------------------
(* Specifications *)

\* make_group_tables on every roster and problem-set list within the bounds
Init == TablesInit /\ AssignIdle /\ ParseIdle /\ HomeworkIdle

Next ==
    \/ TotalStudents /\ UNCHANGED <<assignVars, parseVars, hwVars>>
    \/ AssignNext /\ UNCHANGED <<assignVars, parseVars, hwVars>>
    \/ AssignNextZeroDivision /\ UNCHANGED <<assignVars, parseVars, hwVars>>
    \/ Combine /\ UNCHANGED <<assignVars, parseVars, hwVars>>
    \/ Partition /\ UNCHANGED <<assignVars, parseVars, hwVars>>
    \/ Assemble /\ UNCHANGED <<assignVars, parseVars, hwVars>>
    \/ AssembleIndexError /\ UNCHANGED <<assignVars, parseVars, hwVars>>
    \/ TablesReturn /\ UNCHANGED <<assignVars, parseVars, hwVars>>

Spec == Init /\ [][Next]_vars

\* assign_problems on every problem list and count within the bounds
InitAssign == AssignInit /\ TablesIdle /\ ParseIdle /\ HomeworkIdle

NextAssign ==
    \/ AssignReturn /\ UNCHANGED <<tableVars, parseVars, hwVars>>
    \/ AssignZeroDivision /\ UNCHANGED <<tableVars, parseVars, hwVars>>

SpecAssign == InitAssign /\ [][NextAssign]_vars

\* parse_students on every roster file within the bounds
InitParse == ParseInit /\ AssignIdle /\ TablesIdle /\ HomeworkIdle

NextParse ==
    \/ ReadLines /\ UNCHANGED <<assignVars, tableVars, hwVars>>
    \/ ParseHeader /\ UNCHANGED <<assignVars, tableVars, hwVars>>
    \/ ParseHeaderRepeats /\ UNCHANGED <<assignVars, tableVars, hwVars>>
    \/ ParseStudentNoGroup /\ UNCHANGED <<assignVars, tableVars, hwVars>>
    \/ ParseStudentUnpack /\ UNCHANGED <<assignVars, tableVars, hwVars>>
    \/ ParseStudent /\ UNCHANGED <<assignVars, tableVars, hwVars>>
    \/ ParseReturn /\ UNCHANGED <<assignVars, tableVars, hwVars>>

SpecParse == InitParse /\ [][NextParse]_vars

\* the output loop of make_homework on every group order and response
InitHomework == HomeworkInit /\ AssignIdle /\ TablesIdle /\ ParseIdle

NextHomework ==
    \/ WriteTex /\ UNCHANGED <<assignVars, tableVars, parseVars>>
    \/ WriteTexThenPdf /\ UNCHANGED <<assignVars, tableVars, parseVars>>
    \/ Request /\ UNCHANGED <<assignVars, tableVars, parseVars>>
    \/ SavePdfAndSleep /\ UNCHANGED <<assignVars, tableVars, parseVars>>
    \/ ReportFailure /\ UNCHANGED <<assignVars, tableVars, parseVars>>
    \/ HomeworkDone /\ UNCHANGED <<assignVars, tableVars, parseVars>>

SpecHomework == InitHomework /\ [][NextHomework]_vars

-----------------------------------------------------------------------------
(* Properties of assign_problems (SpecAssign) *)

Floor(a, b) == a \div b

CeilOf(a, b) == (a + b - 1) \div b

Returned == a_pc = "returned" /\ students_n > 0

\* C1: for a non-empty list and a positive count, whatever the permutations,
\* the returned sequence has exactly students_n elements.
C1_LengthIsCount == Returned => Len(a_result) = students_n

\* C1 witness: a call whose last block overshoots and was truncated
C1_Witness ==
    /\ Returned
    /\ students_n > Len(problems)
    /\ students_n % Len(problems) # 0
    /\ Len(a_result) = students_n

\* C2 as stated: every element of problems occurs in the result at least
\* floor(count/len) and at most ceil(count/len) times.
C2_Original ==
    Returned =>
        \A i \in 1..Len(problems) :
            /\ Count(a_result, problems[i]) >= Floor(students_n, Len(problems))
            /\ Count(a_result, problems[i]) <= CeilOf(students_n, Len(problems))

\* C2 amended: a label that occurs m times in problems occurs in the result
\* at least m * floor(count/len) and at most m * ceil(count/len) times
\* (so between floor and ceil when the labels of problems are distinct).
C2_CountsPerMultiplicity ==
    Returned =>
        \A i \in 1..Len(problems) :
            LET m == Count(problems, problems[i]) IN
            /\ Count(a_result, problems[i]) >= m * Floor(students_n, Len(problems))
            /\ Count(a_result, problems[i]) <= m * CeilOf(students_n, Len(problems))

\* C2 witness: a repeated label, several blocks, the last one truncated
C2_Witness ==
    /\ Returned
    /\ \E i \in 1..Len(problems) : Count(problems, problems[i]) = 2
    /\ students_n > Len(problems)
    /\ students_n % Len(problems) # 0
    /\ \E i \in 1..Len(problems) :
          Count(a_result, problems[i]) > CeilOf(students_n, Len(problems))

Short == Returned /\ students_n < Len(problems)

\* C8 as stated: for count < len(problems) no two positions of the result
\* hold the same problem.
C8_Original ==
    Short => \A i, j \in 1..Len(a_result) : i # j => a_result[i] # a_result[j]

\* C8 amended: for count < len(problems) the result is a prefix of one
\* shuffled copy of problems: it has count elements and no label occurs in it
\* more often than in problems, so it has no repeats when problems has none.
C8_PrefixOfOneBlock ==
    Short =>
        /\ Len(a_result) = students_n
        /\ \A x \in Labels : Count(a_result, x) <= Count(problems, x)
        /\ (\A i, j \in 1..Len(problems) : i # j => problems[i] # problems[j])
              => \A i, j \in 1..Len(a_result) : i # j => a_result[i] # a_result[j]

\* C8 witness: a short call whose result holds a repeated label twice
C8_Witness ==
    /\ Short
    /\ \E i, j \in 1..Len(a_result) : i # j /\ a_result[i] = a_result[j]

-----------------------------------------------------------------------------
(* Properties of make_group_tables (Spec) *)

RECURSIVE Concat(_)
Concat(xs) == IF xs = <<>> THEN <<>> ELSE Head(xs) \o Concat(Tail(xs))

Partitioned == t_pc \in {"partition", "returned"} /\ Len(group_problems) = Len(groups)

\* C3: once every group has been given its slice, each slice is as long as
\* the group's student list, the slices concatenated in roster order are the
\* combined list, and nothing is left of problems_assigned.
C3_PartitionPreserves ==
    Partitioned =>
        /\ \A k \in 1..Len(groups) :
              Len(group_problems[k].problems) = Len(groups[k].students)
        /\ Concat([k \in 1..Len(group_problems) |-> group_problems[k].problems])
              = combined
        /\ problems_assigned = <<>>

\* C4: every group's rows are in the group's student order: row i (0-based)
\* is numbered i + 1 and names students[i], for each group anew.
C4_RowsInStudentOrder ==
    /\ \A k \in 1..Len(table_data) :
          /\ table_data[k].name = groups[k].name
          /\ Len(table_data[k].rows) = Len(groups[k].students)
          /\ \A i \in 1..Len(groups[k].students) :
                /\ table_data[k].rows[i][1] = i
                /\ table_data[k].rows[i][2] = groups[k].students[i]
    /\ t_pc = "returned" => Len(table_data) = Len(groups)

\* C4 witness: a returned table whose second group has two different students
C4_Witness ==
    /\ t_pc = "returned"
    /\ Len(table_data) = 2
    /\ Len(table_data[1].rows) >= 1
    /\ Len(table_data[2].rows) = 2
    /\ table_data[2].rows[1][2] # table_data[2].rows[2][2]

\* C5: the combined list is as long as the total student count and each of
\* its elements holds, for every problem-set j in input order, the element
\* of allocation j at that position.
C5_CombinedShape ==
    t_pc \in {"partition", "returned"} =>
        /\ Len(combined) = total_students_n
        /\ \A i \in 1..Len(combined) :
              /\ Len(combined[i]) = Len(problem_groups)
              /\ \A j \in 1..Len(problem_groups) : combined[i][j] = allocs[j][i]

BadConfiguration ==
    \/ problem_groups = <<>>
    \/ SumLens([i \in 1..Len(groups) |-> groups[i].students]) <= 0
    \/ \E j \in 1..Len(problem_groups) : problem_groups[j] = <<>>

\* C6: with no problem-sets, a total of zero students or an empty
\* problem-set, the run ends in ConfigurationError before any allocation:
\* no allocation is made, no table is returned, no other error is raised.
C6_ConfigurationError ==
    BadConfiguration =>
        /\ allocs = <<>>
        /\ t_pc # "returned"
        /\ t_pc = "raised" => t_error = "ConfigurationError"

\* C7: no group is handed a slice shorter than its student list, nothing of
\* the combined list is left over at the return, and a combined list whose
\* length is not the sum of the group sizes ends in AllocationMismatchError.
C7_AllocationMismatch ==
    /\ \A k \in 1..Len(group_problems) :
          Len(group_problems[k].problems) >= Len(groups[k].students)
    /\ t_pc = "returned" => problems_assigned = <<>>
    /\ (t_pc = "raised" /\ Len(group_problems) > 0)
          => t_error = "AllocationMismatchError"

-----------------------------------------------------------------------------
(* Property of the output loop of make_homework (SpecHomework) *)

\* C9: between any two remote compile requests there is a delay, whatever
\* the first response was.
C9_DelayBetweenRequests ==
    \A i, j \in 1..Len(h_events) :
        (i < j /\ h_events[i][1] = "request" /\ h_events[j][1] = "request")
            => \E k \in (i + 1)..(j - 1) : h_events[k][1] = "sleep"

-----------------------------------------------------------------------------
(* Property of parse_students (SpecParse) *)

BlankInput == \A i \in 1..Len(file_lines) : Len(file_lines[i]) = 0

HeaderRepeats ==
    \E i, j \in 1..Len(file_lines) :
        /\ i < j
        /\ IsHeader(file_lines[i])
        /\ file_lines[j] = file_lines[i]

StudentBeforeHeader ==
    \E j \in 1..Len(file_lines) :
        /\ Len(file_lines[j]) > 0
        /\ ~IsHeader(file_lines[j])
        /\ \A i \in 1..(j - 1) : ~IsHeader(file_lines[i])

\* C10: a roster is returned only for an input that is not blank, repeats
\* no group header and has no student line before the first header.
C10_FailsFast ==
    p_pc = "returned" => ~BlankInput /\ ~HeaderRepeats /\ ~StudentBeforeHeader

====
